---- MODULE Spec2Model ----
(***************************************************************************)
(* A model of the mlops_enterprise package:                                *)
(*   - monitoring.py : _psi, _ks_stat, build_drift_report   (SpecDrift,    *)
(*                     SpecKS)                                             *)
(*   - validation.py : validate_df                          (SpecValidate) *)
(*   - api.py        : _load_if_needed, health, predict     (SpecApi)      *)
(*   - registry.py   : _wait_ready, register_best_to_production            *)
(*                                                          (SpecRegistry) *)
(* Each specification moves only the variables of its own component and    *)
(* leaves the others at their idle values.                                 *)
(*                                                                         *)
(* Numbers.  Column values are integers.  Quantile edges, empirical CDFs   *)
(* and means are exact rationals kept as integers over a stated            *)
(* denominator.  PSI needs a logarithm: it is computed in fixed point      *)
(* (proportions in 1e-6, ln in 1e-3, the result in 1e-7 units).            *)
(***************************************************************************)
EXTENDS Integers, Sequences, FiniteSets, TLC

VARIABLES
    \* ---- monitoring.build_drift_report: one invocation
    ref,            \* the reference data frame (pd.read_csv(reference_csv))
    cur,            \* the current data frame (pd.read_csv(current_csv))
    feature_cols,   \* the list read from feature_names_json
    rows,           \* the list `rows` built by the loop
    i_feat,         \* number of names of feature_cols the loop has consumed
    drift_pc,       \* "loop" | "render" | "done" | "error"
    drift_err,      \* the exception that ended the invocation, or NoError
    out_file,       \* what is stored at out_html
    drift_ret,      \* the returned dict, or NoReturn
    \* ---- monitoring._ks_stat applied to free-standing samples
    ks_a, ks_b, ks_pc, ks_ab, ks_aa,
    \* ---- validation.validate_df: one call
    val_df,         \* the frame passed in
    val_features,   \* feature_cols
    val_pc,         \* "call" | "done"
    val_out,        \* what the call gave: the returned frame or the exception
    \* ---- api: the module globals and the request threads
    _lock,          \* threading.Lock: the worker holding it, or Free
    _model,         \* None or the loaded pyfunc model
    _feature_cols,  \* None or the list of feature names
    _model_uri,     \* None or "models:/<name>/Production"
    _load_error,    \* None or repr(e) of the last failed load
    api_pc,         \* per worker thread: the statement it is about to run
    api_resp,       \* per worker thread: the response dict it is building
    requests,       \* requests accepted so far
    load_calls,     \* calls of mlflow.pyfunc.load_model so far
    loads_ok,       \* loads that set both _model and _feature_cols
    \* ---- registry.register_best_to_production: one call and the MLflow server
    exp_exists,     \* does get_experiment_by_name find the experiment
    runs_empty,     \* does search_runs give an empty frame
    versions,       \* the registry's versions of the model: status and stage each
    reg_prior,      \* how many versions the registry held before the call
    reg_pc,         \* the statement the call is about to run
    mv_version,     \* mv.version of line 43 (0 before it)
    polled,         \* what the last get_model_version of _wait_ready returned
    ready_at,       \* seconds since `start` at the poll that returned READY (-1: none)
    now,            \* time.time(), in seconds since _wait_ready was entered
    start,          \* `start` of _wait_ready
    wake,           \* the time at which time.sleep(1) returns
    transition,     \* the transition_model_version_stage request made, if any
    reg_err         \* the exception that ended the call, or ""

driftVars == <<ref, cur, feature_cols, rows, i_feat, drift_pc, drift_err, out_file, drift_ret>>
ksVars == <<ks_a, ks_b, ks_pc, ks_ab, ks_aa>>
valVars == <<val_df, val_features, val_pc, val_out>>
apiVars == <<_lock, _model, _feature_cols, _model_uri, _load_error,
             api_pc, api_resp, requests, load_calls, loads_ok>>
regVars == <<exp_exists, runs_empty, versions, reg_prior, reg_pc, mv_version, polled,
             ready_at, now, start, wake, transition, reg_err>>
vars == <<driftVars, ksVars, valVars, apiVars, regVars>>
otherThanDrift == <<ksVars, valVars, apiVars, regVars>>
otherThanKs == <<driftVars, valVars, apiVars, regVars>>
otherThanVal == <<driftVars, ksVars, apiVars, regVars>>
otherThanApi == <<driftVars, ksVars, valVars, regVars>>
otherThanReg == <<driftVars, ksVars, valVars, apiVars>>

-----------------------------------------------------------------------------
(* Bounds of the model *)

\* rows of a data frame drawn by Init
MaxRows == 2
\* names in the feature list drawn by Init
MaxFeatures == 3
\* length of the samples handed to _ks_stat in SpecKS
MaxSample == 4
\* rows of a frame handed to validate_df
MaxValRows == 2
\* HTTP requests the serving process accepts
MaxRequests == 3
\* seconds the clock of _wait_ready is followed for
MaxTime == 123

\* the values a cell of a drawn data frame holds
Vals == {1, 2}
\* the values of the free-standing KS samples
KsVals == {1, 2, 3}
\* the column every drawn frame has, and the one it may lack
AlwaysCol == "f"
OptionalCol == "g"
Names == {AlwaysCol, OptionalCol}

-----------------------------------------------------------------------------
(* Helpers over sequences *)

\* the sum of a sequence of integers, by halves
RECURSIVE SumSeq(_)
SumSeq(s) ==
    IF s = <<>> THEN 0
    ELSE IF Len(s) = 1 THEN s[1]
    ELSE LET h == Len(s) \div 2
         IN  SumSeq(SubSeq(s, 1, h)) + SumSeq(SubSeq(s, h + 1, Len(s)))

Abs(x) == IF x < 0 THEN -x ELSE x

Max2(x, y) == IF x >= y THEN x ELSE y

Min2(x, y) == IF x <= y THEN x ELSE y

RECURSIVE MaxSeq(_)
MaxSeq(s) == IF Len(s) = 1 THEN s[1] ELSE Max2(Head(s), MaxSeq(Tail(s)))

Repeat(v, n) == [k \in 1..n |-> v]

SeqsUpTo(S, n) == UNION {[1..k -> S] : k \in 0..n}

Range(s) == {s[j] : j \in 1..Len(s)}

\* Evaluation helpers: a sequence as an explicit tuple, and an expression
\* evaluated once and handed to F (the value of F(x), or of F(x, y))
Tup(s) == s \o <<>>
With1(x, F(_)) == CHOOSE out \in {F(v) : v \in {x}} : TRUE
With2(x, y, F(_, _)) == CHOOSE out \in {F(v, w) : v \in {x}, w \in {y}} : TRUE

\* np.sort of a float array: position k holds the value with fewer than k
\* elements below it and at least k elements at or below it
np_sort(s) ==
    [k \in 1..Len(s) |->
        CHOOSE v \in Range(s) :
            /\ Cardinality({j \in 1..Len(s) : s[j] < v}) < k
            /\ k <= Cardinality({j \in 1..Len(s) : s[j] <= v})]

\* np.unique: the distinct values, ascending
np_unique(s) ==
    [k \in 1..Cardinality(Range(s)) |->
        CHOOSE v \in Range(s) : Cardinality({w \in Range(s) : w < v}) = k - 1]

\* np.searchsorted(a, x, side="right"): binary search for the first position
\* (0-based) whose element exceeds x, between lo and hi
RECURSIVE BisectRight(_, _, _, _)
BisectRight(a, x, lo, hi) ==
    IF lo >= hi THEN lo
    ELSE LET mid == (lo + hi) \div 2
         IN  IF a[mid + 1] <= x
             THEN BisectRight(a, x, mid + 1, hi)
             ELSE BisectRight(a, x, lo, mid)

searchsorted_right(a, x) == BisectRight(a, x, 0, Len(a))

-----------------------------------------------------------------------------
(* monitoring._psi *)

\* bins: int = 10
Bins == 10

\* eps = 1e-6, as the number of 1e-6 units
EpsMicro == 1
Micro == 1000000

\* round(1000 * ln k) for k = 1..50, and round(1000 * ln 1e-6)
LnMilli == <<0, 693, 1099, 1386, 1609, 1792, 1946, 2079, 2197, 2303,
             2398, 2485, 2565, 2639, 2708, 2773, 2833, 2890, 2944, 2996,
             3045, 3091, 3135, 3178, 3219, 3258, 3296, 3332, 3367, 3401,
             3434, 3466, 3497, 3526, 3555, 3584, 3611, 3638, 3664, 3689,
             3714, 3738, 3761, 3784, 3807, 3829, 3850, 3871, 3892, 3912>>
LnEpsMilli == 0 - 13816

\* an edge: -inf, +inf, or a finite value kept times Bins
NegInf == [kind |-> "neg", v |-> 0]
PosInf == [kind |-> "pos", v |-> 0]
Finite(x) == [kind |-> "fin", v |-> x]

\* np.quantile(ref, q) for q = np.linspace(0, 1, bins + 1), method "linear":
\* edge k (k = 0..bins) sits at virtual index k*(n-1)/bins of the sorted
\* sample and interpolates its two neighbours.  Edges are returned times Bins.
np_quantile(sample) ==
    With1(Tup(np_sort(sample)), LAMBDA a :
        [k1 \in 1..(Bins + 1) |->
            LET n == Len(a)
                pos == (k1 - 1) * (n - 1)
                lo == pos \div Bins
                frac == pos % Bins
                hi == Min2(lo + 1, n - 1)
            IN  Finite(Bins * a[lo + 1] + (a[hi + 1] - a[lo + 1]) * frac)])

\* edges[0] = -np.inf ; edges[-1] = np.inf
psi_edges(sample) ==
    With1(Tup(np_quantile(sample)), LAMBDA e :
        [k1 \in 1..(Bins + 1) |->
            IF k1 = 1 THEN NegInf ELSE IF k1 = Bins + 1 THEN PosInf ELSE e[k1]])

\* v < edge and v <= edge for a value v
LtEdge(v, e) ==
    IF e.kind = "neg" THEN FALSE ELSE IF e.kind = "pos" THEN TRUE ELSE v * Bins < e.v
LeEdge(v, e) ==
    IF e.kind = "neg" THEN FALSE ELSE IF e.kind = "pos" THEN TRUE ELSE v * Bins <= e.v

\* np.histogram(a, bins=edges) for explicit edges: cumulative counts by
\* searchsorted(edges[:-1], "left") and searchsorted(edges[-1], "right"),
\* then their differences.  Every bucket is [lo, hi) but the last, [lo, hi].
np_histogram(sample, edges) ==
    LET cum(k1) ==
            IF k1 = Bins + 1
            THEN Cardinality({j \in 1..Len(sample) : LeEdge(sample[j], edges[k1])})
            ELSE Cardinality({j \in 1..Len(sample) : LtEdge(sample[j], edges[k1])})
    IN  [b \in 1..Bins |-> cum(b + 1) - cum(b)]

\* np.clip(count / max(total, 1), eps, 1), in 1e-6 units
ClipProp(count, total) ==
    Max2(EpsMicro, Min2(Micro, (count * Micro) \div Max2(total, 1)))

\* ln of the clipped proportion, in 1e-3 units
LnProp(count, total) ==
    IF count * Micro <= Max2(total, 1) * EpsMicro
    THEN LnEpsMilli
    ELSE LnMilli[count] - LnMilli[Max2(total, 1)]

\* one bucket's (cp - rp) * log(cp / rp), in 1e-7 units
PsiTerm(rc, rtot, cc, ctot) ==
    (Abs(ClipProp(cc, ctot) - ClipProp(rc, rtot)) \div 100)
        * Abs(LnProp(cc, ctot) - LnProp(rc, rtot))

\* _psi(ref, cur) for a non-empty reference sample
psi(r, k) ==
    With1(Tup(psi_edges(r)), LAMBDA edges :
        With2(Tup(np_histogram(r, edges)), Tup(np_histogram(k, edges)), LAMBDA rc, cc :
            With2(SumSeq(rc), SumSeq(cc), LAMBDA rtot, ctot :
                SumSeq([b \in 1..Bins |-> PsiTerm(rc[b], rtot, cc[b], ctot)]))))

-----------------------------------------------------------------------------
(* monitoring._ks_stat *)

NaN == [nan |-> TRUE, num |-> 0, den |-> 1]
Ratio(n, d) == [nan |-> FALSE, num |-> n, den |-> d]

\* the grid: np.sort(np.unique(np.concatenate([ref, cur])))
ks_grid(r, k) == np_unique(np_sort(r \o k))

\* _ks_stat with cdf_c divided by ref.size instead of cur.size
ks_stat_ref_size(r, k) ==
    IF Len(r) = 0 \/ Len(k) = 0 THEN NaN
    ELSE With2(Tup(np_sort(r)), Tup(np_sort(k)), LAMBDA sr, sk :
            With1(Tup(np_unique(np_sort(r \o k))), LAMBDA xs :
                Ratio(MaxSeq([g \in 1..Len(xs) |->
                        Abs(searchsorted_right(sr, xs[g]) * Len(sr)
                            - searchsorted_right(sk, xs[g]) * Len(sr))]),
                      Len(sr) * Len(sr))))

\* _ks_stat(ref, cur): max |cdf_r - cdf_c| over the grid, as a ratio over
\* ref.size * cur.size.  A zero size divides 0 by 0 in every grid entry
\* (numpy warns and yields nan), and the maximum is then nan.
ks_stat(r, k) ==
    IF Len(r) = 0 \/ Len(k) = 0 THEN NaN
    ELSE With2(Tup(np_sort(r)), Tup(np_sort(k)), LAMBDA sr, sk :
            With1(Tup(ks_grid(r, k)), LAMBDA xs :
                Ratio(MaxSeq([g \in 1..Len(xs) |->
                        Abs(searchsorted_right(sr, xs[g]) * Len(sk)
                            - searchsorted_right(sk, xs[g]) * Len(sr))]),
                      Len(sr) * Len(sk))))

\* float(np.mean(x)): nan (with a warning) for an empty array
np_mean(x) == IF Len(x) = 0 THEN NaN ELSE Ratio(SumSeq(x), Len(x))

-----------------------------------------------------------------------------
(* monitoring.build_drift_report *)

\* a data frame: its column names, its row count and one sequence per column
Frame(columns, nrows, data) == [columns |-> columns, nrows |-> nrows, data |-> data]

NoError == [type |-> "none", column |-> ""]
\* ref[c] / cur[c] on an absent column, and df.sort_values on an absent key
KeyError(c) == [type |-> "KeyError", column |-> c]
\* np.quantile of an empty array (numpy >= 1.22 indexes its last element)
IndexError == [type |-> "IndexError", column |-> ""]

Absent == [state |-> "absent", table |-> <<>>]
OldFile == [state |-> "old", table |-> <<>>]
Report(t) == [state |-> "report", table |-> t]

NoReturn == [returned |-> FALSE, rows_ref |-> 0, rows_cur |-> 0]

\* the dict appended to `rows` for feature c; index is the label the
\* DataFrame constructor gives the row (its position in the list)
DriftRow(c, r, k, index) ==
    [index |-> index,
     feature |-> c,
     psi |-> psi(r, k),
     ks_stat |-> ks_stat(r, k),
     ref_mean |-> np_mean(r),
     cur_mean |-> np_mean(k)]

\* x > y for two ks_stat values; nan sorts last (na_position="last")
KsGreater(x, y) == ~x.nan /\ (y.nan \/ x.num * y.den > y.num * x.den)

\* row a goes strictly before row b under by=["psi","ks_stat"], ascending=False
KeyBefore(a, b) ==
    \/ a.psi > b.psi
    \/ a.psi = b.psi /\ KsGreater(a.ks_stat, b.ks_stat)

\* a row put into an already ordered list, behind every row it does not beat
RECURSIVE InsertRow(_, _)
InsertRow(sorted, r) ==
    IF sorted = <<>> THEN <<r>>
    ELSE IF KeyBefore(r, Head(sorted)) THEN <<r>> \o sorted
    ELSE <<Head(sorted)>> \o InsertRow(Tail(sorted), r)

RECURSIVE SortFrom(_, _)
SortFrom(rs, acc) ==
    IF rs = <<>> THEN acc ELSE SortFrom(Tail(rs), InsertRow(acc, Head(rs)))

\* a sort that is ascending and then reversed: equal keys come out reversed
RECURSIVE Reverse(_)
Reverse(rs) == IF rs = <<>> THEN <<>> ELSE Append(Reverse(Tail(rs)), Head(rs))
sort_values_reversed(rs) == SortFrom(Reverse(rs), <<>>)

\* DataFrame.sort_values(["psi", "ks_stat"], ascending=False): with several
\* keys pandas sorts by a lexsort of the keys' codes, which keeps the rows of
\* equal keys in their original order
sort_values(rs) == SortFrom(rs, <<>>)

\* the loop body of lines 37-46 for the next name, all columns present and
\* the reference column non-empty
DriftAppendRow ==
    /\ drift_pc = "loop"
    /\ i_feat < Len(feature_cols)
    /\ LET c == feature_cols[i_feat + 1] IN
        /\ c \in ref.columns
        /\ c \in cur.columns
        /\ ref.nrows > 0
        /\ rows' = Append(rows, DriftRow(c, ref.data[c], cur.data[c], Len(rows)))
    /\ i_feat' = i_feat + 1
    /\ UNCHANGED <<ref, cur, feature_cols, drift_pc, drift_err, out_file, drift_ret>>
    /\ UNCHANGED otherThanDrift

\* a loop that skips a name it does not find (best effort)
DriftMissingColumnSkipped ==
    /\ drift_pc = "loop"
    /\ i_feat < Len(feature_cols)
    /\ LET c == feature_cols[i_feat + 1] IN
        c \notin ref.columns \/ c \notin cur.columns
    /\ i_feat' = i_feat + 1
    /\ UNCHANGED <<ref, cur, feature_cols, rows, drift_pc, drift_err, out_file, drift_ret>>
    /\ UNCHANGED otherThanDrift

\* ref[c] or cur[c] raises KeyError(c): the invocation ends at line 38 or 39
DriftMissingColumn ==
    /\ drift_pc = "loop"
    /\ i_feat < Len(feature_cols)
    /\ LET c == feature_cols[i_feat + 1] IN
        /\ c \notin ref.columns \/ c \notin cur.columns
        /\ drift_err' = KeyError(c)
    /\ drift_pc' = "error"
    /\ UNCHANGED <<ref, cur, feature_cols, rows, i_feat, out_file, drift_ret>>
    /\ UNCHANGED otherThanDrift

\* _psi on an empty reference column: np.quantile raises at line 11
DriftEmptyReference ==
    /\ drift_pc = "loop"
    /\ i_feat < Len(feature_cols)
    /\ LET c == feature_cols[i_feat + 1] IN
        /\ c \in ref.columns
        /\ c \in cur.columns
        /\ ref.nrows = 0
    /\ drift_err' = IndexError
    /\ drift_pc' = "error"
    /\ UNCHANGED <<ref, cur, feature_cols, rows, i_feat, out_file, drift_ret>>
    /\ UNCHANGED otherThanDrift

\* the loop is over with no row: pd.DataFrame([]) has no column "psi" and
\* sort_values raises KeyError at line 48
DriftSortNoRows ==
    /\ drift_pc = "loop"
    /\ i_feat = Len(feature_cols)
    /\ rows = <<>>
    /\ drift_err' = KeyError("psi")
    /\ drift_pc' = "error"
    /\ UNCHANGED <<ref, cur, feature_cols, rows, i_feat, out_file, drift_ret>>
    /\ UNCHANGED otherThanDrift

\* lines 48-65: sort, create the parent directory, write the document, return
DriftRender ==
    /\ drift_pc = "loop"
    /\ i_feat = Len(feature_cols)
    /\ rows # <<>>
    /\ out_file' = Report(sort_values(rows))
    /\ drift_ret' = [returned |-> TRUE, rows_ref |-> ref.nrows, rows_cur |-> cur.nrows]
    /\ drift_pc' = "done"
    /\ UNCHANGED <<ref, cur, feature_cols, rows, i_feat, drift_err>>
    /\ UNCHANGED otherThanDrift

\* the frames Init draws: column AlwaysCol, maybe OptionalCol, 0..MaxRows rows.
\* Columns are drawn in ascending order: no statistic of the report depends on
\* the order of a column (SpecKS draws unordered samples).
Frames ==
    UNION {
        {Frame(cols, n, d) : d \in [cols -> {x \in [1..n -> Vals] : np_sort(x) = x}]} :
            cols \in {{AlwaysCol}, Names}, n \in 0..MaxRows }

FeatureLists == SeqsUpTo(Names, MaxFeatures)

\* the scenario of the constant reference: 50 ones against 40 ones and 10 hundreds
ScenarioRef == Frame({AlwaysCol}, 50, [c \in {AlwaysCol} |-> Repeat(1, 50)])
ScenarioCur ==
    Frame({AlwaysCol}, 50, [c \in {AlwaysCol} |-> Repeat(1, 40) \o Repeat(100, 10)])

DriftInit ==
    /\ \/ /\ ref \in Frames
          /\ cur \in Frames
          /\ feature_cols \in FeatureLists
       \/ /\ ref = ScenarioRef
          /\ cur = ScenarioCur
          /\ feature_cols = <<AlwaysCol>>
    /\ rows = <<>>
    /\ i_feat = 0
    /\ drift_pc = "loop"
    /\ drift_err = NoError
    /\ out_file \in {Absent, OldFile}
    /\ drift_ret = NoReturn

DriftIdle ==
    /\ ref = Frame({}, 0, <<>>)
    /\ cur = Frame({}, 0, <<>>)
    /\ feature_cols = <<>>
    /\ rows = <<>>
    /\ i_feat = 0
    /\ drift_pc = "idle"
    /\ drift_err = NoError
    /\ out_file = Absent
    /\ drift_ret = NoReturn

DriftNext ==
    \/ DriftAppendRow
    \/ DriftMissingColumn
    \/ DriftEmptyReference
    \/ DriftSortNoRows
    \/ DriftRender

-----------------------------------------------------------------------------
(* _ks_stat on free-standing samples *)

KsSamples == SeqsUpTo(KsVals, MaxSample)

KsInit ==
    /\ ks_a \in KsSamples
    /\ ks_b \in KsSamples
    /\ ks_pc = "call"
    /\ ks_ab = NaN
    /\ ks_aa = NaN

KsIdle ==
    /\ ks_a = <<>>
    /\ ks_b = <<>>
    /\ ks_pc = "idle"
    /\ ks_ab = NaN
    /\ ks_aa = NaN

\* _ks_stat(a, b) and _ks_stat(a, a)
KsCall ==
    /\ ks_pc = "call"
    /\ ks_ab' = ks_stat(ks_a, ks_b)
    /\ ks_aa' = ks_stat(ks_a, ks_a)
    /\ ks_pc' = "done"
    /\ UNCHANGED <<ks_a, ks_b>>
    /\ UNCHANGED otherThanKs

-----------------------------------------------------------------------------
(* validation.validate_df *)

\* a cell: a null (NaN / None), a string that is no number, an infinity, or
\* a finite number kept as twice its value (so that 0.5 is 1)
Null == [kind |-> "null", twice |-> 0]
Text == [kind |-> "text", twice |-> 0]
Inf == [kind |-> "inf", twice |-> 0]
Num(twice) == [kind |-> "num", twice |-> twice]

LabelCol == "label"

Raised(type, message) ==
    [status |-> type, message |-> message, frame |-> Frame({}, 0, <<>>)]
Returned(frame) == [status |-> "returned", message |-> "", frame |-> frame]
NotCalled == [status |-> "none", message |-> "", frame |-> Frame({}, 0, <<>>)]

ColumnHas(df, c, kind) == \E j \in 1..df.nrows : df.data[c][j].kind = kind

\* the loop of lines 21-27 from feature k on: the message of the first
\* feature check that fails, or "" when every feature passes
RECURSIVE FeatureLoop(_, _, _)
FeatureLoop(df, fcols, k) ==
    IF k > Len(fcols) THEN ""
    ELSE IF ColumnHas(df, fcols[k], "text") THEN "Non-numeric values in feature"
    ELSE IF ColumnHas(df, fcols[k], "inf") THEN "Non-finite values in feature"
    ELSE FeatureLoop(df, fcols, k + 1)

\* Series.astype(int) on a finite float: truncation toward zero
astype_int(twice) == IF twice >= 0 THEN twice \div 2 ELSE 0 - ((0 - twice) \div 2)

\* the label column after y = pd.to_numeric(...).astype(int), as cells
LabelAsInt(df) == [j \in 1..df.nrows |-> Num(2 * astype_int(df.data[LabelCol][j].twice))]

\* a null check over the whole frame, required column or not
NullAnywhere(df, required) == \E c \in df.columns : ColumnHas(df, c, "null")

\* is the null check of line 18 hit: a null in a required column
NullInRequired(df, required) == \E c \in required : ColumnHas(df, c, "null")

\* validate_df(df, feature_cols)
validate_df(df, fcols) ==
    LET required == Range(fcols) \cup {LabelCol}
        y == LabelAsInt(df)
    IN  IF required \ df.columns # {}
        THEN Raised("DataValidationError", "Missing columns")
        ELSE IF NullInRequired(df, required)
        THEN Raised("DataValidationError", "Null values found in required columns.")
        ELSE IF FeatureLoop(df, fcols, 1) # ""
        THEN Raised("DataValidationError", FeatureLoop(df, fcols, 1))
        ELSE IF ColumnHas(df, LabelCol, "text")
        THEN Raised("DataValidationError", "Non-numeric values in label.")
        ELSE IF ColumnHas(df, LabelCol, "inf")
        \* astype(int) refuses a non-finite value with pandas' own ValueError
        THEN Raised("IntCastingNaNError", "Cannot convert non-finite values (NA or inf) to integer")
        ELSE IF \E j \in 1..df.nrows : y[j].twice \notin {0, 2}
        THEN Raised("DataValidationError", "Label must be in {0,1}")
        ELSE Returned([df EXCEPT !.data[LabelCol] = y])

FeatureA == "x"
FeatureB == "y"
ValFeatureLists == {<<FeatureA>>, <<FeatureA, FeatureB>>}

FeatureACells == {Null, Text, Inf, Num(3)}
FeatureBCells == {Null, Text, Num(4)}
LabelCells == {Null, Text, Inf, Num(0), Num(2), Num(4), Num(0 - 2), Num(1)}

\* the frames handed in: features x and label; x, y and label (one row fewer);
\* x alone (no label column, one row fewer)
ValShapes == {{FeatureA, LabelCol}, {FeatureA, FeatureB, LabelCol}, {FeatureA}}

ValFrame(cols, n, cx, cy, cl) ==
    Frame(cols, n, [c \in cols |-> IF c = FeatureA THEN cx ELSE IF c = FeatureB THEN cy ELSE cl])

ValInit ==
    /\ val_features \in ValFeatureLists
    /\ \E cols \in ValShapes :
         \E n \in 0..(IF cols = {FeatureA, LabelCol} THEN MaxValRows ELSE MaxValRows - 1) :
            \E cx \in [1..n -> FeatureACells],
               cy \in (IF FeatureB \in cols THEN [1..n -> FeatureBCells] ELSE {<<>>}),
               cl \in (IF LabelCol \in cols THEN [1..n -> LabelCells] ELSE {<<>>}) :
                val_df = ValFrame(cols, n, cx, cy, cl)
    /\ val_pc = "call"
    /\ val_out = NotCalled

ValIdle ==
    /\ val_features = <<>>
    /\ val_df = Frame({}, 0, <<>>)
    /\ val_pc = "idle"
    /\ val_out = NotCalled

ValidateCall ==
    /\ val_pc = "call"
    /\ val_out' = validate_df(val_df, val_features)
    /\ val_pc' = "done"
    /\ UNCHANGED <<val_df, val_features>>
    /\ UNCHANGED otherThanVal

-----------------------------------------------------------------------------
(* api: _load_if_needed, health, predict *)

\* the threads of the server's pool that run the sync endpoints
Workers == {"w1", "w2", "w3"}

None == "None"
Free == "free"
NoResp == [kind |-> "none", status |-> None, model_uri |-> None, load_error |-> None]

Goto(w, pc) == api_pc' = [api_pc EXCEPT ![w] = pc]

Globals == <<_lock, _model, _feature_cols, _model_uri, _load_error>>
Counters == <<requests, load_calls, loads_ok>>

\* a worker takes a POST /predict: line 64 calls _load_if_needed
StartPredict(w) ==
    /\ api_pc[w] = "idle"
    /\ requests < MaxRequests
    /\ requests' = requests + 1
    /\ Goto(w, "l33_model")
    /\ UNCHANGED <<Globals, api_resp, load_calls, loads_ok>>
    /\ UNCHANGED otherThanApi

\* line 33, left operand: _model is not None
FastCheckModel(w) ==
    /\ api_pc[w] = "l33_model"
    /\ Goto(w, IF _model # None THEN "l33_cols" ELSE "l35_acquire")
    /\ UNCHANGED <<Globals, api_resp, Counters>>
    /\ UNCHANGED otherThanApi

\* line 33, right operand: _feature_cols is not None; line 34 returns
FastCheckCols(w) ==
    /\ api_pc[w] = "l33_cols"
    /\ Goto(w, IF _feature_cols # None THEN "l65_model" ELSE "l35_acquire")
    /\ UNCHANGED <<Globals, api_resp, Counters>>
    /\ UNCHANGED otherThanApi

\* line 35: with _lock
Acquire(w) ==
    /\ api_pc[w] = "l35_acquire"
    /\ _lock = Free
    /\ _lock' = w
    /\ Goto(w, "l36_model")
    /\ UNCHANGED <<_model, _feature_cols, _model_uri, _load_error, api_resp, Counters>>
    /\ UNCHANGED otherThanApi

\* a second check that is left out: the thread loads whatever it finds
LockedCheckModelSkipped(w) ==
    /\ api_pc[w] = "l36_model"
    /\ Goto(w, "l39_settings")
    /\ UNCHANGED <<Globals, api_resp, Counters>>
    /\ UNCHANGED otherThanApi

\* line 36, left operand, under the lock
LockedCheckModel(w) ==
    /\ api_pc[w] = "l36_model"
    /\ Goto(w, IF _model # None THEN "l36_cols" ELSE "l39_settings")
    /\ UNCHANGED <<Globals, api_resp, Counters>>
    /\ UNCHANGED otherThanApi

\* line 36, right operand; line 37 returns (and leaves the with block)
LockedCheckCols(w) ==
    /\ api_pc[w] = "l36_cols"
    /\ Goto(w, IF _feature_cols # None THEN "release" ELSE "l39_settings")
    /\ UNCHANGED <<Globals, api_resp, Counters>>
    /\ UNCHANGED otherThanApi

\* lines 39-41: load_settings and the two set_*_uri calls succeed
LoadSettings(w) ==
    /\ api_pc[w] = "l39_settings"
    /\ Goto(w, "l42_uri")
    /\ UNCHANGED <<Globals, api_resp, Counters>>
    /\ UNCHANGED otherThanApi

\* lines 39-41 raise (no config file, bad YAML, missing key)
LoadSettingsRaises(w) ==
    /\ api_pc[w] = "l39_settings"
    /\ Goto(w, "l48_model")
    /\ UNCHANGED <<Globals, api_resp, Counters>>
    /\ UNCHANGED otherThanApi

\* line 42: _model_uri = f"models:/{s.model_name}/Production"
SetModelUri(w) ==
    /\ api_pc[w] = "l42_uri"
    /\ _model_uri' = "uri"
    /\ Goto(w, "l43_load")
    /\ UNCHANGED <<_lock, _model, _feature_cols, _load_error, api_resp, Counters>>
    /\ UNCHANGED otherThanApi

\* line 43: _model = mlflow.pyfunc.load_model(_model_uri)
LoadModel(w) ==
    /\ api_pc[w] = "l43_load"
    /\ load_calls' = load_calls + 1
    /\ _model' = "model"
    /\ Goto(w, "l45_cols")
    /\ UNCHANGED <<_lock, _feature_cols, _model_uri, _load_error, api_resp, requests, loads_ok>>
    /\ UNCHANGED otherThanApi

\* line 43 raises (no Production version, tracking server unreachable)
LoadModelRaises(w) ==
    /\ api_pc[w] = "l43_load"
    /\ load_calls' = load_calls + 1
    /\ Goto(w, "l48_model")
    /\ UNCHANGED <<Globals, api_resp, requests, loads_ok>>
    /\ UNCHANGED otherThanApi

\* lines 44-45: _feature_cols = json.loads(Path(...).read_text(...))
ReadFeatureCols(w) ==
    /\ api_pc[w] = "l45_cols"
    /\ _feature_cols' = "cols"
    /\ loads_ok' = loads_ok + 1
    /\ Goto(w, "l46_error")
    /\ UNCHANGED <<_lock, _model, _model_uri, _load_error, api_resp, requests, load_calls>>
    /\ UNCHANGED otherThanApi

\* lines 44-45 raise (missing key, missing file, bad JSON)
ReadFeatureColsRaises(w) ==
    /\ api_pc[w] = "l45_cols"
    /\ Goto(w, "l48_model")
    /\ UNCHANGED <<Globals, api_resp, Counters>>
    /\ UNCHANGED otherThanApi

\* line 46: _load_error = None
ClearLoadError(w) ==
    /\ api_pc[w] = "l46_error"
    /\ _load_error' = None
    /\ Goto(w, "release")
    /\ UNCHANGED <<_lock, _model, _feature_cols, _model_uri, api_resp, Counters>>
    /\ UNCHANGED otherThanApi

\* line 48: _model = None
ExceptResetModel(w) ==
    /\ api_pc[w] = "l48_model"
    /\ _model' = None
    /\ Goto(w, "l49_cols")
    /\ UNCHANGED <<_lock, _feature_cols, _model_uri, _load_error, api_resp, Counters>>
    /\ UNCHANGED otherThanApi

\* line 49: _feature_cols = None
ExceptResetCols(w) ==
    /\ api_pc[w] = "l49_cols"
    /\ _feature_cols' = None
    /\ Goto(w, "l50_error")
    /\ UNCHANGED <<_lock, _model, _model_uri, _load_error, api_resp, Counters>>
    /\ UNCHANGED otherThanApi

\* line 50: _load_error = repr(e)
ExceptSetError(w) ==
    /\ api_pc[w] = "l50_error"
    /\ _load_error' = "err"
    /\ Goto(w, "release")
    /\ UNCHANGED <<_lock, _model, _feature_cols, _model_uri, api_resp, Counters>>
    /\ UNCHANGED otherThanApi

\* the with block is left: the lock is released and _load_if_needed returns
Release(w) ==
    /\ api_pc[w] = "release"
    /\ _lock = w
    /\ _lock' = Free
    /\ Goto(w, "l65_model")
    /\ UNCHANGED <<_model, _feature_cols, _model_uri, _load_error, api_resp, Counters>>
    /\ UNCHANGED otherThanApi

\* line 65, left operand: _model is None
PredictCheckModel(w) ==
    /\ api_pc[w] = "l65_model"
    /\ Goto(w, IF _model = None THEN "l66_error" ELSE "l65_cols")
    /\ UNCHANGED <<Globals, api_resp, Counters>>
    /\ UNCHANGED otherThanApi

\* line 65, right operand: _feature_cols is None
PredictCheckCols(w) ==
    /\ api_pc[w] = "l65_cols"
    /\ Goto(w, IF _feature_cols = None THEN "l66_error" ELSE "l67_predict")
    /\ UNCHANGED <<Globals, api_resp, Counters>>
    /\ UNCHANGED otherThanApi

\* line 66: the "Model not ready" response
PredictNotReady(w) ==
    /\ api_pc[w] = "l66_error"
    /\ api_resp' = [api_resp EXCEPT ![w] =
            [kind |-> "predict", status |-> "error",
             model_uri |-> _model_uri, load_error |-> _load_error]]
    /\ Goto(w, "ret")
    /\ UNCHANGED <<Globals, Counters>>
    /\ UNCHANGED otherThanApi

\* lines 67-74: the prediction (or the "Missing columns" response)
PredictAnswer(w) ==
    /\ api_pc[w] = "l67_predict"
    /\ api_resp' = [api_resp EXCEPT ![w] =
            [kind |-> "predict", status |-> "predictions",
             model_uri |-> _model_uri, load_error |-> None]]
    /\ Goto(w, "ret")
    /\ UNCHANGED <<Globals, Counters>>
    /\ UNCHANGED otherThanApi

\* a worker takes a GET /health
StartHealth(w) ==
    /\ api_pc[w] = "idle"
    /\ requests < MaxRequests
    /\ requests' = requests + 1
    /\ Goto(w, "l54_status")
    /\ UNCHANGED <<Globals, api_resp, load_calls, loads_ok>>
    /\ UNCHANGED otherThanApi

\* line 54, first value: "ready" if (_model is not None) else "not_ready"
HealthStatus(w) ==
    /\ api_pc[w] = "l54_status"
    /\ api_resp' = [api_resp EXCEPT ![w] =
            [kind |-> "health", status |-> IF _model # None THEN "ready" ELSE "not_ready",
             model_uri |-> None, load_error |-> None]]
    /\ Goto(w, "l54_uri")
    /\ UNCHANGED <<Globals, Counters>>
    /\ UNCHANGED otherThanApi

\* line 54, second value: _model_uri
HealthModelUri(w) ==
    /\ api_pc[w] = "l54_uri"
    /\ api_resp' = [api_resp EXCEPT ![w].model_uri = _model_uri]
    /\ Goto(w, "l54_error")
    /\ UNCHANGED <<Globals, Counters>>
    /\ UNCHANGED otherThanApi

\* line 54, third value: _load_error; the dict is returned
HealthLoadError(w) ==
    /\ api_pc[w] = "l54_error"
    /\ api_resp' = [api_resp EXCEPT ![w].load_error = _load_error]
    /\ Goto(w, "ret")
    /\ UNCHANGED <<Globals, Counters>>
    /\ UNCHANGED otherThanApi

\* the response is sent and the worker is free again
SendResponse(w) ==
    /\ api_pc[w] = "ret"
    /\ api_resp' = [api_resp EXCEPT ![w] = NoResp]
    /\ Goto(w, "idle")
    /\ UNCHANGED <<Globals, Counters>>
    /\ UNCHANGED otherThanApi

ApiInit ==
    /\ _lock = Free
    /\ _model = None
    /\ _feature_cols = None
    /\ _model_uri = None
    /\ _load_error = None
    /\ api_pc = [w \in Workers |-> "idle"]
    /\ api_resp = [w \in Workers |-> NoResp]
    /\ requests = 0
    /\ load_calls = 0
    /\ loads_ok = 0

ApiIdle ==
    /\ _lock = Free
    /\ _model = None
    /\ _feature_cols = None
    /\ _model_uri = None
    /\ _load_error = None
    /\ api_pc = [w \in Workers |-> "off"]
    /\ api_resp = [w \in Workers |-> NoResp]
    /\ requests = 0
    /\ load_calls = 0
    /\ loads_ok = 0

NextApi ==
    \E w \in Workers :
        \/ StartPredict(w)
        \/ FastCheckModel(w)
        \/ FastCheckCols(w)
        \/ Acquire(w)
        \/ LockedCheckModel(w)
        \/ LockedCheckCols(w)
        \/ LoadSettings(w)
        \/ LoadSettingsRaises(w)
        \/ SetModelUri(w)
        \/ LoadModel(w)
        \/ LoadModelRaises(w)
        \/ ReadFeatureCols(w)
        \/ ReadFeatureColsRaises(w)
        \/ ClearLoadError(w)
        \/ ExceptResetModel(w)
        \/ ExceptResetCols(w)
        \/ ExceptSetError(w)
        \/ Release(w)
        \/ PredictCheckModel(w)
        \/ PredictCheckCols(w)
        \/ PredictNotReady(w)
        \/ PredictAnswer(w)
        \/ StartHealth(w)
        \/ HealthStatus(w)
        \/ HealthModelUri(w)
        \/ HealthLoadError(w)
        \/ SendResponse(w)

-----------------------------------------------------------------------------
(* registry: _wait_ready, register_best_to_production *)

\* timeout_s: int = 120
timeout_s == 120

NoPoll == [version |-> 0, status |-> ""]
NoTransition == [version |-> 0, stage |-> ""]

Statuses == {"PENDING_REGISTRATION", "READY", "FAILED_REGISTRATION"}

RegLocals == <<mv_version, polled, ready_at, start, wake, transition, reg_err>>
RegWorld == <<exp_exists, runs_empty, versions, reg_prior>>

\* lines 28-30: the experiment is not there
RegExperimentMissing ==
    /\ reg_pc = "l28_experiment"
    /\ ~exp_exists
    /\ reg_err' = "RuntimeError: Experiment not found. Run train first."
    /\ reg_pc' = "raised"
    /\ UNCHANGED <<RegWorld, mv_version, polled, ready_at, now, start, wake, transition>>
    /\ UNCHANGED otherThanReg

\* line 28: the experiment is found
RegExperimentFound ==
    /\ reg_pc = "l28_experiment"
    /\ exp_exists
    /\ reg_pc' = "l32_runs"
    /\ UNCHANGED <<RegWorld, RegLocals, now>>
    /\ UNCHANGED otherThanReg

\* lines 32-36: no run in the experiment
RegNoRuns ==
    /\ reg_pc = "l32_runs"
    /\ runs_empty
    /\ reg_err' = "RuntimeError: No runs found. Run train first."
    /\ reg_pc' = "raised"
    /\ UNCHANGED <<RegWorld, mv_version, polled, ready_at, now, start, wake, transition>>
    /\ UNCHANGED otherThanReg

\* lines 32-40: the best run is taken
RegBestRun ==
    /\ reg_pc = "l32_runs"
    /\ ~runs_empty
    /\ reg_pc' = "l43_register"
    /\ UNCHANGED <<RegWorld, RegLocals, now>>
    /\ UNCHANGED otherThanReg

\* line 43: mlflow.register_model creates the next version, in some status
RegRegisterModel ==
    /\ reg_pc = "l43_register"
    /\ \E st \in Statuses :
        versions' = Append(versions, [status |-> st, stage |-> "None"])
    /\ mv_version' = Len(versions) + 1
    /\ reg_pc' = "l12_start"
    /\ UNCHANGED <<exp_exists, runs_empty, reg_prior, polled, ready_at, now, start, wake,
                   transition, reg_err>>
    /\ UNCHANGED otherThanReg

\* line 12: start = time.time()
RegWaitStart ==
    /\ reg_pc = "l12_start"
    /\ start' = now
    /\ reg_pc' = "l14_poll"
    /\ UNCHANGED <<RegWorld, mv_version, polled, ready_at, now, wake, transition, reg_err>>
    /\ UNCHANGED otherThanReg

\* lines 14-16: get_model_version(name, version); READY returns
RegPoll ==
    /\ reg_pc = "l14_poll"
    /\ polled' = [version |-> mv_version, status |-> versions[mv_version].status]
    /\ IF versions[mv_version].status = "READY"
       THEN /\ ready_at' = now - start
            /\ reg_pc' = "l46_transition"
       ELSE /\ ready_at' = ready_at
            /\ reg_pc' = "l17_timeout"
    /\ UNCHANGED <<RegWorld, mv_version, now, start, wake, transition, reg_err>>
    /\ UNCHANGED otherThanReg

\* a timeout that gives up waiting without raising
RegTimeoutCheckReturns ==
    /\ reg_pc = "l17_timeout"
    /\ IF now - start > timeout_s
       THEN /\ reg_pc' = "l46_transition"
            /\ wake' = wake
       ELSE /\ reg_pc' = "l19_sleep"
            /\ wake' = now + 1
    /\ UNCHANGED <<RegWorld, mv_version, polled, ready_at, now, start, transition, reg_err>>
    /\ UNCHANGED otherThanReg

\* lines 17-19: raise after timeout_s, else time.sleep(1)
RegTimeoutCheck ==
    /\ reg_pc = "l17_timeout"
    /\ IF now - start > timeout_s
       THEN /\ reg_err' = "RuntimeError: Model version not READY"
            /\ reg_pc' = "raised"
            /\ wake' = wake
       ELSE /\ reg_err' = reg_err
            /\ reg_pc' = "l19_sleep"
            /\ wake' = now + 1
    /\ UNCHANGED <<RegWorld, mv_version, polled, ready_at, now, start, transition>>
    /\ UNCHANGED otherThanReg

\* line 19: the sleep is over once a second has passed
RegSleepOver ==
    /\ reg_pc = "l19_sleep"
    /\ now >= wake
    /\ reg_pc' = "l14_poll"
    /\ UNCHANGED <<RegWorld, RegLocals, now>>
    /\ UNCHANGED otherThanReg

\* lines 46-51: transition_model_version_stage(version, "Production",
\* archive_existing_versions=True); lines 53-58 return
RegTransition ==
    /\ reg_pc = "l46_transition"
    /\ transition' = [version |-> mv_version, stage |-> "Production"]
    /\ versions' = [v \in 1..Len(versions) |->
            IF v = mv_version THEN [versions[v] EXCEPT !.stage = "Production"]
            ELSE IF versions[v].stage = "Production" THEN [versions[v] EXCEPT !.stage = "Archived"]
            ELSE versions[v]]
    /\ reg_pc' = "done"
    /\ UNCHANGED <<exp_exists, runs_empty, reg_prior, mv_version, polled, ready_at, now, start,
                   wake, reg_err>>
    /\ UNCHANGED otherThanReg

\* the server finishes or fails the registration of a pending version
ServerSettles ==
    /\ reg_pc \in {"l12_start", "l14_poll", "l17_timeout", "l19_sleep"}
    /\ \E v \in 1..Len(versions) :
        /\ versions[v].status = "PENDING_REGISTRATION"
        /\ \E st \in {"READY", "FAILED_REGISTRATION"} :
            versions' = [versions EXCEPT ![v].status = st]
    /\ UNCHANGED <<exp_exists, runs_empty, reg_prior, reg_pc, RegLocals, now>>
    /\ UNCHANGED otherThanReg

\* a second passes while _wait_ready runs
Tick ==
    /\ reg_pc \in {"l14_poll", "l17_timeout", "l19_sleep"}
    /\ now < MaxTime
    /\ now' = now + 1
    /\ UNCHANGED <<RegWorld, reg_pc, RegLocals>>
    /\ UNCHANGED otherThanReg

PriorVersions == {<<>>, <<[status |-> "READY", stage |-> "Production"]>>}

RegInit ==
    /\ exp_exists \in BOOLEAN
    /\ runs_empty \in BOOLEAN
    /\ versions \in PriorVersions
    /\ reg_prior = Len(versions)
    /\ reg_pc = "l28_experiment"
    /\ mv_version = 0
    /\ polled = NoPoll
    /\ ready_at = 0 - 1
    /\ now = 0
    /\ start = 0
    /\ wake = 0
    /\ transition = NoTransition
    /\ reg_err = ""

RegIdle ==
    /\ exp_exists = FALSE
    /\ runs_empty = FALSE
    /\ versions = <<>>
    /\ reg_prior = 0
    /\ reg_pc = "idle"
    /\ mv_version = 0
    /\ polled = NoPoll
    /\ ready_at = 0 - 1
    /\ now = 0
    /\ start = 0
    /\ wake = 0
    /\ transition = NoTransition
    /\ reg_err = ""

NextRegistry ==
    \/ RegExperimentMissing
    \/ RegExperimentFound
    \/ RegNoRuns
    \/ RegBestRun
    \/ RegRegisterModel
    \/ RegWaitStart
    \/ RegPoll
    \/ RegTimeoutCheck
    \/ RegSleepOver
    \/ RegTransition
    \/ ServerSettles
    \/ Tick

-----------------------------------------------------------------------------
(* Specifications *)

InitDrift == DriftInit /\ KsIdle /\ ValIdle /\ ApiIdle /\ RegIdle
SpecDrift == InitDrift /\ [][DriftNext]_vars

InitKS == KsInit /\ DriftIdle /\ ValIdle /\ ApiIdle /\ RegIdle
NextKS == KsCall
SpecKS == InitKS /\ [][NextKS]_vars

InitValidate == ValInit /\ DriftIdle /\ KsIdle /\ ApiIdle /\ RegIdle
NextValidate == ValidateCall
SpecValidate == InitValidate /\ [][NextValidate]_vars

InitApi == ApiInit /\ DriftIdle /\ KsIdle /\ ValIdle /\ RegIdle
SpecApi == InitApi /\ [][NextApi]_vars

InitRegistry == RegInit /\ DriftIdle /\ KsIdle /\ ValIdle /\ ApiIdle
SpecRegistry == InitRegistry /\ [][NextRegistry]_vars

-----------------------------------------------------------------------------
(* Claims about build_drift_report, _psi and _ks_stat *)

\* two ks_stat values are the same number (or both nan)
KsSame(x, y) == (x.nan /\ y.nan) \/ (~x.nan /\ ~y.nan /\ x.num * y.den = y.num * x.den)

\* x >= y, a nan being below every number
KsAtLeast(x, y) == y.nan \/ (~x.nan /\ x.num * y.den >= y.num * x.den)

\* the names of the feature list that a frame lacks
MissingIn(frame) == {j \in 1..Len(feature_cols) : feature_cols[j] \notin frame.columns}
MissingPositions == MissingIn(ref) \cup MissingIn(cur)
FirstMissing == CHOOSE j \in MissingPositions : \A m \in MissingPositions : j <= m

\* C1: the written table holds exactly the rows built for the requested
\* features, one per name and each once, ordered by psi descending, then by
\* ks_stat descending, rows of equal (psi, ks_stat) in the order of their names
\* in the feature list.
C1_SortedStablePermutation ==
    drift_pc = "done" =>
        LET t == out_file.table IN
        /\ out_file.state = "report"
        /\ Len(t) = Len(feature_cols)
        /\ {t[p].index : p \in 1..Len(t)} = 0..(Len(feature_cols) - 1)
        /\ \A p \in 1..Len(t) :
            /\ t[p] = rows[t[p].index + 1]
            /\ t[p].feature = feature_cols[t[p].index + 1]
        /\ \A p, q \in 1..Len(t) :
            p < q =>
                /\ t[p].psi >= t[q].psi
                /\ t[p].psi = t[q].psi => KsAtLeast(t[p].ks_stat, t[q].ks_stat)
                /\ (t[p].psi = t[q].psi /\ KsSame(t[p].ks_stat, t[q].ks_stat))
                        => t[p].index < t[q].index

\* a report of three rows in which the sort moved a row and kept a tie in place
C1_Witness ==
    /\ drift_pc = "done"
    /\ Len(out_file.table) = 3
    /\ out_file.table[1].index # 0
    /\ \E p, q \in 1..3 :
        /\ p < q
        /\ out_file.table[p].psi = out_file.table[q].psi
        /\ KsSame(out_file.table[p].ks_stat, out_file.table[q].ks_stat)

C3_EmptyColumnIsAnError ==
    (feature_cols # <<>> /\ MissingPositions = {} /\ (ref.nrows = 0 \/ cur.nrows = 0)) =>
        /\ drift_pc # "done"
        /\ out_file.state # "report"

\* C4: in the constant-reference scenario the row built for the feature has
\* psi > 0, ks_stat > 0 and cur_mean > ref_mean.
C4_ScenarioDetectsDrift ==
    (ref = ScenarioRef /\ cur = ScenarioCur /\ Len(rows) = 1) =>
        /\ rows[1].psi > 0
        /\ rows[1].ks_stat.num > 0
        /\ rows[1].cur_mean.num * rows[1].ref_mean.den
                > rows[1].ref_mean.num * rows[1].cur_mean.den

\* the empirical CDF of sample s at x, times Len(s): the elements <= x
CdfCount(s, x) == Cardinality({j \in 1..Len(s) : s[j] <= x})

\* the two empirical CDFs agree at every value of either sample
CdfsAgree(a, b) ==
    \A x \in Range(a) \cup Range(b) : CdfCount(a, x) * Len(b) = CdfCount(b, x) * Len(a)

\* b holds the same values as a, as often
SameMultiset(a, b) ==
    /\ Len(a) = Len(b)
    /\ \A x \in Range(a) \cup Range(b) :
        Cardinality({j \in 1..Len(a) : a[j] = x}) = Cardinality({j \in 1..Len(b) : b[j] = x})

\* C5: for non-empty samples ks_stat lies in [0, 1], is 0 exactly when the
\* empirical CDFs agree on the grid, and is 0 for a sample against itself or
\* against any reordering of itself.
C5_KsRangeAndZero ==
    (ks_pc = "done" /\ ks_a # <<>> /\ ks_b # <<>>) =>
        /\ ~ks_ab.nan
        /\ 0 <= ks_ab.num /\ ks_ab.num <= ks_ab.den /\ ks_ab.den > 0
        /\ (ks_ab.num = 0) <=> CdfsAgree(ks_a, ks_b)
        /\ ~ks_aa.nan /\ ks_aa.num = 0
        /\ SameMultiset(ks_a, ks_b) => ks_ab.num = 0

\* samples of different sizes and orders with duplicates whose CDFs agree
C5_Witness ==
    /\ ks_pc = "done"
    /\ ks_a = <<2, 1>>
    /\ Len(ks_b) = 4
    /\ ks_ab.num = 0
    /\ ~ks_ab.nan

-----------------------------------------------------------------------------
(* Claims about validate_df *)

\* the frame holds every feature column and the label column, no null in
\* them, only finite numbers as feature values and only labels 0 or 1
ValidInput ==
    /\ (Range(val_features) \cup {LabelCol}) \subseteq val_df.columns
    /\ \A c \in Range(val_features) : \A j \in 1..val_df.nrows : val_df.data[c][j].kind = "num"
    /\ \A j \in 1..val_df.nrows : val_df.data[LabelCol][j] \in {Num(0), Num(2)}

\* C6: a valid frame is returned, with as many rows as it came with, every
\* row in its place and with its values.
C6_ValidFrameKeepsRows ==
    (val_pc = "done" /\ ValidInput) =>
        /\ val_out.status = "returned"
        /\ val_out.frame.nrows = val_df.nrows
        /\ val_out.frame.columns = val_df.columns
        /\ \A c \in val_df.columns : Len(val_out.frame.data[c]) = val_df.nrows
        /\ \A c \in val_df.columns : \A j \in 1..val_df.nrows :
                val_out.frame.data[c][j] = val_df.data[c][j]

\* a valid frame with a null in a column that is not required
C6_Witness ==
    /\ val_pc = "done"
    /\ ValidInput
    /\ val_df.nrows >= 1
    /\ val_features = <<FeatureA>>
    /\ FeatureB \in val_df.columns
    /\ val_df.data[FeatureB][1] = Null
    /\ val_out.status = "returned"

\* the feature columns pass every check of validate_df
FeaturesPass ==
    /\ (Range(val_features) \cup {LabelCol}) \subseteq val_df.columns
    /\ ~NullInRequired(val_df, Range(val_features) \cup {LabelCol})
    /\ \A c \in Range(val_features) : \A j \in 1..val_df.nrows : val_df.data[c][j].kind = "num"

\* C10: with passing features, a label that is not exactly 0 or 1 raises
\* DataValidationError; so a returned frame holds only labels 0 or 1, each
\* equal to the label that came in.
C10_LabelOutsideZeroOneRaises ==
    (val_pc = "done" /\ FeaturesPass) =>
        /\ (\E j \in 1..val_df.nrows : val_df.data[LabelCol][j] \notin {Num(0), Num(2)})
                => val_out.status = "DataValidationError"
        /\ val_out.status = "returned" =>
                \A j \in 1..val_df.nrows :
                    /\ val_out.frame.data[LabelCol][j] \in {Num(0), Num(2)}
                    /\ val_out.frame.data[LabelCol][j] = val_df.data[LabelCol][j]

-----------------------------------------------------------------------------
(* Claims about the serving process *)

\* the statements of _load_if_needed that run under the lock
InLoadSection(w) ==
    api_pc[w] \in {"l36_model", "l36_cols", "l39_settings", "l42_uri", "l43_load",
                   "l45_cols", "l46_error", "l48_model", "l49_cols", "l50_error", "release"}

Loaded == _model # None /\ _feature_cols # None

\* C7: at most one thread is in the load section at a time; once both
\* _model and _feature_cols are set they stay set and load_model is not
\* called again; at most one load ever succeeds.
C7_LazySingleton ==
    /\ [](/\ \A v, w \in Workers : (InLoadSection(v) /\ InLoadSection(w)) => v = w
          /\ \A w \in Workers : InLoadSection(w) => _lock = w
          /\ loads_ok <= 1)
    /\ [][Loaded => (Loaded' /\ load_calls' = load_calls /\ loads_ok' = loads_ok
                      /\ _model' = _model /\ _feature_cols' = _feature_cols)]_vars

\* after a failed and then a successful load, a thread that waited for the
\* lock holds it and is at the second check
C7_Witness ==
    /\ Loaded
    /\ load_calls = 2
    /\ loads_ok = 1
    /\ \E w \in Workers : api_pc[w] = "l36_cols" /\ _lock = w

\* C9: a /health response that says "ready" carries load_error None and is
\* given only with the feature column list loaded.
C9_ReadyMeansLoaded ==
    \A w \in Workers :
        (api_pc[w] = "ret" /\ api_resp[w].kind = "health" /\ api_resp[w].status = "ready") =>
            /\ api_resp[w].load_error = None
            /\ _feature_cols # None

-----------------------------------------------------------------------------
(* Claims about register_best_to_production *)

\* C8 as stated: a stage transition is requested only for the version whose
\* poll returned READY, and only when READY was seen before the timeout ran
\* out; a missing experiment or an empty run list raises with nothing
\* registered.
C8_ReadyBeforeTimeoutOrRaise ==
    /\ transition # NoTransition =>
        /\ polled = [version |-> transition.version, status |-> "READY"]
        /\ transition.version = mv_version
        /\ 0 <= ready_at /\ ready_at <= timeout_s
    /\ reg_err = "RuntimeError: Model version not READY" => transition = NoTransition
    /\ (~exp_exists \/ runs_empty) =>
        /\ Len(versions) = reg_prior
        /\ transition = NoTransition

\* C8 amended: the transition is requested only after a poll returned READY
\* for the version just registered; _wait_ready raises exactly when a poll
\* that did not return READY is followed by a clock reading more than
\* timeout_s past start (so a READY seen by the first poll after the timeout
\* still counts), and then nothing is requested; a missing experiment or an
\* empty run list raises with nothing registered.
C8_TransitionOnlyAfterReady ==
    /\ transition # NoTransition =>
        /\ polled = [version |-> transition.version, status |-> "READY"]
        /\ transition.version = mv_version
        /\ mv_version = reg_prior + 1
        /\ transition.stage = "Production"
        /\ ready_at >= 0
    /\ reg_pc \in {"l46_transition", "done"} => polled = [version |-> mv_version, status |-> "READY"]
    /\ reg_pc = "done" => transition # NoTransition
    /\ reg_pc \in {"l17_timeout", "l19_sleep"} =>
        /\ polled.version = mv_version /\ polled.status # "READY"
        /\ transition = NoTransition
    /\ reg_pc = "l19_sleep" => (wake - 1) - start <= timeout_s
    /\ reg_err = "RuntimeError: Model version not READY" =>
        /\ reg_pc = "raised"
        /\ transition = NoTransition
        /\ polled.status # "READY"
        /\ now - start > timeout_s
    /\ reg_pc = "raised" =>
        /\ transition = NoTransition
        /\ reg_err # ""
    /\ (~exp_exists \/ runs_empty) =>
        /\ Len(versions) = reg_prior
        /\ mv_version = 0
        /\ transition = NoTransition
        /\ reg_pc \in {"l28_experiment", "l32_runs", "raised"}

\* a version that failed to register: the wait timed out and nothing was requested
C8_Witness ==
    /\ reg_pc = "raised"
    /\ reg_err = "RuntimeError: Model version not READY"
    /\ reg_prior = 1
    /\ versions[mv_version].status = "FAILED_REGISTRATION"
    /\ transition = NoTransition

====
